---------------------------- MODULE Spec2Model ----------------------------
(***************************************************************************)
(* wasmserve (main.go): the HTTP handler, the lazily created output        *)
(* directory, the build-on-demand pipeline with its copy-mode subprocess,  *)
(* and the /_wait - /_notify rendezvous on the unbuffered waitChannel.     *)
(*                                                                         *)
(* Every inbound request is served by its own goroutine (net/http); a      *)
(* goroutine's position in handle() is pc[r], and one action is one        *)
(* step of one goroutine between two accesses to shared state.             *)
(***************************************************************************)
EXTENDS Naturals, Integers, Sequences, FiniteSets, TLC

\* ------------------------------------------------------------- bounds
\* Requests (goroutines) of one behaviour.
NReq == 3
\* Requests that may be in flight together in the builder scenario.
NBuilders == 2
\* Chunks io.Copy writes for one artifact.
NChunks == 2
\* Requests served one after the other in the router scenario.
NRouted == 2

\* Characters of the first positional argument and of an environment value.
MaxLen == 2
\* Positional arguments of the process.
NArgs == 2

Req == 1..NReq
Dirs == 1..NReq

VARIABLES
    fs,            \* working directory: path -> "absent" | "file" | "dir" | "err"
    tmpOutputDir,  \* main.go:69, 0 is the empty string, d > 0 a created directory
    tmpDirs,       \* directories ioutil.TempDir has created so far
    outFile,       \* <dir>/main.wasm of every temporary directory
    sendq,         \* goroutines parked in a send on waitChannel (main.go:70)
    url,           \* r.URL.Path of every request
    pc,            \* position of every request's goroutine
    loc,           \* locals of handle(): output, tmp
    proc,          \* the `go run -exec` subprocess of every request
    resp,          \* what was written to every request's ResponseWriter
    hist,          \* history: who released whom, what each request observed
    gone,          \* requests whose client has closed its connection
    flagArgs,      \* flag.Args(): the positional arguments of the process
    environ,       \* os.Environ(): the "key=value" entries of the process
    mainp          \* main(): its position, and its copy when it runs in copy mode

vars == <<fs, tmpOutputDir, tmpDirs, outFile, sendq, url, pc, loc, proc, resp, hist,
          gone, flagArgs, environ, mainp>>

\* The process: its arguments, its environment and main()'s position.
osvars == <<flagArgs, environ, mainp>>

\* ------------------------------------------------------------- URLs and paths
\* A cleaned URL path: "/" + segs joined by "/" + ("/" if slash).  "/" itself is
\* [segs |-> <<>>, slash |-> TRUE].
Url(segs, slash) == [segs |-> segs, slash |-> slash]
NoUrl == Url(<<>>, FALSE)

\* strings.HasSuffix(r.URL.Path, "/")
HasSuffixSlash(u) == u.slash

\* path.Base(r.URL.Path[1:]): "." for the empty path, else the last element
\* (trailing slashes removed).
PathBase(u) == IF u.segs = <<>> THEN "." ELSE u.segs[Len(u.segs)]

\* os.Stat of a path relative to the working directory.
Stat(p) == IF p \in DOMAIN fs THEN fs[p] ELSE "absent"

\* r.URL.Path + "/"
AddSlash(u) == Url(u.segs, TRUE)

\* ------------------------------------------------------------- text
\* A text is a sequence of characters.  A character is a one-character string;
\* a longer string is an atom: a run of characters none of which is special to
\* any function below (a name, a path element, a stretch of the template).
Quote == "\""
Backslash == "\\"

\* Faulty variant: an escaper that knows the double quote only.
JSEscapeQuoteOnly(c) == IF c = Quote THEN <<Backslash, Quote>> ELSE <<c>>

\* text/template.JSEscapeString (main.go:127, 135), for one rune: backslash and
\* the quotes get a backslash, < and = become \u003C and \u003D.
JSEscapeRune(c) ==
    CASE c = Backslash -> <<Backslash, Backslash>>
      [] c = "'" -> <<Backslash, "'">>
      [] c = Quote -> <<Backslash, Quote>>
      [] c = "<" -> <<Backslash, "u", "0", "0", "3", "C">>
      [] c = "=" -> <<Backslash, "u", "0", "0", "3", "D">>
      [] OTHER -> <<c>>

RECURSIVE JSEscapeString(_)
JSEscapeString(s) ==
    IF s = <<>> THEN <<>> ELSE JSEscapeRune(Head(s)) \o JSEscapeString(Tail(s))

\* strings.Join(elems, sep)
RECURSIVE Join(_, _)
Join(elems, sep) ==
    IF elems = <<>> THEN <<>>
    ELSE IF Len(elems) = 1 THEN elems[1]
    ELSE elems[1] \o sep \o Join(Tail(elems), sep)

\* strings.ReplaceAll(h, old, new), old being a placeholder of the template
\* (one atom of h)
RECURSIVE ReplaceAll(_, _, _)
ReplaceAll(h, old, new) ==
    IF h = <<>> THEN <<>>
    ELSE (IF Head(h) = old THEN new ELSE <<Head(h)>>) \o ReplaceAll(Tail(h), old, new)

\* strings.SplitN(e, "=", 2): e cut at its first "=", or e alone when it has none
SplitN(e) ==
    LET eqs == {i \in 1..Len(e) : e[i] = "="} IN
    IF eqs = {} THEN <<e>>
    ELSE LET i == CHOOSE j \in eqs : \A k \in eqs : j <= k
         IN <<SubSeq(e, 1, i - 1), SubSeq(e, i + 1, Len(e))>>

\* os.Getenv(key): the value of the first entry of the environment with that key
Getenv(key) ==
    LET hits == {i \in 1..Len(environ) :
                    Len(SplitN(environ[i])) = 2 /\ SplitN(environ[i])[1] = key} IN
    IF hits = {} THEN <<>>
    ELSE SplitN(environ[CHOOSE j \in hits : \A k \in hits : j <= k])[2]

\* main.go:35-59: the template, with its two placeholders
indexHTML ==
    <<"<!DOCTYPE html>...go.argv = ", "{{.Argv}}", ";go.env = ", "{{.Env}}", ";go.run(result.instance);...">>

\* filepath.Join(output, "main.wasm"), main.go:123, 184, 200
OutputPath(output) ==
    IF output = 0 THEN <<"main.wasm">> ELSE <<"/tmp/", ToString(output), "/", "main.wasm">>

\* main.go:121-128: every argument as a JavaScript string literal
RECURSIVE ArgvLiterals(_)
ArgvLiterals(fargs) ==
    IF fargs = <<>> THEN <<>>
    ELSE <<(<<Quote>> \o JSEscapeString(Head(fargs)) \o <<Quote>>)>> \o ArgvLiterals(Tail(fargs))

\* main.go:131-136: every entry of the environment as  key: "value"
RECURSIVE EnvProperties(_)
EnvProperties(oenv) ==
    IF oenv = <<>> THEN <<>>
    ELSE LET split == SplitN(Head(oenv)) IN
         <<(split[1] \o <<":", " ", Quote>> \o JSEscapeString(split[2]) \o <<Quote>>)>>
            \o EnvProperties(Tail(oenv))

\* split[1] of main.go:135 is out of range for an entry without "=": the
\* handler panics, and net/http drops the connection.
EnvPanics(oenv) == \E i \in 1..Len(oenv) : Len(SplitN(oenv[i])) < 2

\* main.go:121-137: the text of the bootstrap page
RenderPage(output) ==
    LET fargs == IF Len(flagArgs) = 0 THEN <<OutputPath(output)>> ELSE flagArgs
        h == ReplaceAll(indexHTML, "{{.Argv}}",
                        <<"[">> \o Join(ArgvLiterals(fargs), <<",", " ">>) \o <<"]">>)
    IN ReplaceAll(h, "{{.Env}}",
                  <<"{">> \o Join(EnvProperties(environ), <<",", " ">>) \o <<"}">>)

\* ------------------------------------------------------------- responses
NoResp == [status |-> 0, kind |-> "none", data |-> <<>>, to |-> NoUrl, n |-> 0]
Response(status, kind) == [status |-> status, kind |-> kind, data |-> <<>>, to |-> NoUrl, n |-> 1]

\* http.Error(w, text, 500)
HttpError(kind) == Response(500, kind)
\* http.Redirect(w, r, r.URL.Path+"/", http.StatusSeeOther)
HttpRedirect(u) == [Response(303, "redirect") EXCEPT !.to = AddSlash(u)]
\* http.ServeContent(w, r, "", time.Now(), bytes.NewReader(nil))
ServeEmpty == Response(200, "empty")

\* http.ServeFile(w, r, filepath.Join(".", r.URL.Path)): the standard library's
\* file server on the full URL path.  A URL ending in /index.html is redirected
\* to its directory; a directory without trailing slash is redirected (301) to
\* base + "/"; a directory is answered by its index.html or a listing.  The
\* name that is opened is the cleaned path: a trailing slash after a file's
\* name is dropped by filepath.Join.
ServeFile(u) ==
    LET k == Stat(u.segs) IN
    IF (~u.slash) /\ u.segs # <<>> /\ u.segs[Len(u.segs)] = "index.html"
        THEN [Response(301, "redirect") EXCEPT !.to = Url(SubSeq(u.segs, 1, Len(u.segs) - 1), TRUE)]
    ELSE IF u.segs = <<>> \/ k = "dir"
        THEN IF ~u.slash
                THEN [Response(301, "redirect") EXCEPT !.to = AddSlash(u)]
             ELSE IF Stat(u.segs \o <<"index.html">>) = "file"
                THEN Response(200, "static")
             ELSE Response(200, "listing")
    ELSE IF k = "file" THEN Response(200, "static")
    ELSE IF k = "err" THEN Response(500, "static")
    ELSE Response(404, "static")

\* The subprocess `go run -exec <exc> <pkg> <out>` of a request: its stage, and
\* the file offset of the copy's output descriptor.
NoProc == [st |-> "none", off |-> 0]

\* ------------------------------------------------------------- state updates
Goto(r, p) == pc' = [pc EXCEPT ![r] = p]

NoLocals == [output |-> 0, tmp |-> 0]

\* The handler writes its response and returns.
Reply(r, rec) ==
    /\ resp' = [resp EXCEPT ![r] = [rec EXCEPT !.n = resp[r].n + 1]]
    /\ pc' = [pc EXCEPT ![r] = "done"]

Parked == {sendq[i] : i \in 1..Len(sendq)}

\* by: the /_notify request whose receive completed this request's send (0: none);
\* builds: the build subprocesses this request has run to their end.
HistInit == [by |-> 0, builds |-> 0]

\* ------------------------------------------------------------- initial state
EmptyFs == [p \in {} |-> "absent"]

InitShared ==
    /\ tmpOutputDir = 0
    /\ tmpDirs = 0
    /\ outFile = [d \in Dirs |-> [exists |-> FALSE, data |-> <<>>]]
    /\ sendq = <<>>
    /\ url = [r \in Req |-> NoUrl]
    /\ pc = [r \in Req |-> "idle"]
    /\ loc = [r \in Req |-> NoLocals]
    /\ proc = [r \in Req |-> NoProc]
    /\ resp = [r \in Req |-> NoResp]
    /\ hist = [r \in Req |-> HistInit]
    /\ gone = {}

\* main() has registered the handler and is in ListenAndServe (main.go:262-263).
Serving == [st |-> "serving", off |-> 0, in |-> [exists |-> FALSE, data |-> <<>>]]

\* The server process: no positional argument, an environment without entries.
InitProcess ==
    /\ flagArgs = <<>>
    /\ environ = <<>>
    /\ mainp = Serving

\* ------------------------------------------------------------- classification
\* main.go:97-216: what handle() does with a URL, decided by os.Stat of the
\* BASE NAME of the URL path (fpath := path.Base(upath)) in the working
\* directory, and by that base name.
IndexCase(k) == IF k = "err" THEN "stat_error" ELSE IF k = "absent" THEN "page" ELSE "static"
ShimCase(k) == IF k = "err" THEN "stat_error" ELSE IF k = "absent" THEN "shim" ELSE "static"
ArtifactCase(k) == IF k = "err" THEN "stat_error" ELSE IF k = "absent" THEN "build" ELSE "static"

\* Faulty variant: every stat error taken for "not found".
IntentErrIgnored(u) ==
    LET b == PathBase(u) IN
    IF (~HasSuffixSlash(u)) /\ Stat(<<b>>) = "dir" THEN "redirect"
    ELSE IF b = "." \/ b = "index.html"
        THEN (IF Stat(<<"index.html">>) \in {"file", "dir"} THEN "static" ELSE "page")
    ELSE IF b = "wasm_exec.js" THEN (IF Stat(<<b>>) \in {"file", "dir"} THEN "static" ELSE "shim")
    ELSE IF b = "main.wasm" THEN (IF Stat(<<b>>) \in {"file", "dir"} THEN "static" ELSE "build")
    ELSE IF b = "_wait" THEN "wait"
    ELSE IF b = "_notify" THEN "notify"
    ELSE "static"

Intent(u) ==
    LET b == PathBase(u) IN
    IF (~HasSuffixSlash(u)) /\ Stat(<<b>>) = "err" THEN "stat_error"
    ELSE IF (~HasSuffixSlash(u)) /\ Stat(<<b>>) = "dir" THEN "redirect"
    ELSE IF b = "." \/ b = "index.html" THEN IndexCase(Stat(<<"index.html">>))
    ELSE IF b = "wasm_exec.js" THEN ShimCase(Stat(<<b>>))
    ELSE IF b = "main.wasm" THEN ArtifactCase(Stat(<<b>>))
    ELSE IF b = "_wait" THEN "wait"
    ELSE IF b = "_notify" THEN "notify"
    ELSE "static"

\* ------------------------------------------------------------- arrival
\* net/http starts a goroutine running handle(w, r), which calls
\* ensureTmpOutputDir; its first access to shared state is main.go:74,
\* if tmpOutputDir != "".  Requests are numbered in the order they arrive, and
\* arrive once main() is in ListenAndServe.
Arrive(r, u) ==
    /\ mainp.st = "serving"
    /\ pc[r] = "idle"
    /\ \A q \in Req : q < r => pc[q] # "idle"
    /\ url' = [url EXCEPT ![r] = u]
    /\ Goto(r, IF tmpOutputDir # 0 THEN "ensure_ret" ELSE "ensure_mk")
    /\ UNCHANGED <<osvars, gone, fs, tmpOutputDir, tmpDirs, outFile, sendq, loc, proc, resp, hist>>

\* ------------------------------------------------------------- ensureTmpOutputDir

\* Faulty variant: the error of ioutil.TempDir dropped, the handler goes on
\* without a directory.
EnsureMkdirErrDropped(r) ==
    /\ pc[r] = "ensure_mk"
    /\ \/ /\ tmpDirs' = tmpDirs + 1
          /\ loc' = [loc EXCEPT ![r].tmp = tmpDirs + 1]
          /\ Goto(r, "ensure_set")
       \/ /\ Goto(r, "ensure_ret")
          /\ UNCHANGED <<tmpDirs, loc>>
    /\ UNCHANGED <<osvars, gone, fs, tmpOutputDir, outFile, sendq, url, proc, resp, hist>>

\* main.go:78-81 and 92-95: ioutil.TempDir creates a fresh directory, or fails
\* and the request is answered 500.
EnsureMkdir(r) ==
    /\ pc[r] = "ensure_mk"
    /\ \/ /\ tmpDirs' = tmpDirs + 1
          /\ loc' = [loc EXCEPT ![r].tmp = tmpDirs + 1]
          /\ Goto(r, "ensure_set")
          /\ UNCHANGED <<resp, hist>>
       \/ /\ Reply(r, HttpError("tempdir"))
          /\ UNCHANGED <<tmpDirs, loc, hist>>
    /\ UNCHANGED <<osvars, gone, fs, tmpOutputDir, outFile, sendq, url, proc>>

\* main.go:82: tmpOutputDir = tmp
EnsureAssign(r) ==
    /\ pc[r] = "ensure_set"
    /\ tmpOutputDir' = loc[r].tmp
    /\ Goto(r, "ensure_ret")
    /\ UNCHANGED <<osvars, gone, fs, tmpDirs, outFile, sendq, url, loc, proc, resp, hist>>

\* The intents whose code reads the local `output` (main.go:123, 184, 200).
UsesOutput(what) == what \in {"page", "build"}

\* Faulty variant: a mutex taken here and held until the handler returns.
EnsureReturnLocked(r) ==
    /\ pc[r] = "ensure_ret"
    /\ \A q \in Req \ {r} : pc[q] \in {"idle", "ensure_mk", "ensure_set", "ensure_ret", "done"}
    /\ loc' = [loc EXCEPT ![r] = [output |-> tmpOutputDir, tmp |-> 0]]
    /\ pc' = [pc EXCEPT ![r] = Intent(url[r])]
    /\ UNCHANGED <<osvars, gone, fs, tmpOutputDir, tmpDirs, outFile, sendq, url, proc, resp, hist>>

\* The accesses to tmpOutputDir (main.go:74, 75, 82, 83) are unsynchronised:
\* every order of the reads and writes of concurrent requests is a behaviour
\* here.  (A Go string is two words; a read torn between two writes is a
\* further outcome of this race, which only the page and the build, the
\* readers of `output`, could observe.)
\*
\* main.go:75 and 83: return tmpOutputDir, nil  (the global is read again);
\* main.go:91: output := ...; main.go:97-216: the request is classified, which
\* reads the URL and the working directory only.  The goroutine's next position
\* is its intent.  `output` is kept where the intent's code reads it.
EnsureReturn(r) ==
    /\ pc[r] = "ensure_ret"
    /\ loc' = [loc EXCEPT ![r] = [output |-> IF UsesOutput(Intent(url[r])) THEN tmpOutputDir ELSE 0,
                                  tmp |-> 0]]
    /\ Goto(r, Intent(url[r]))
    /\ UNCHANGED <<osvars, gone, fs, tmpOutputDir, tmpDirs, outFile, sendq, url, proc, resp, hist>>


Routed(r, what) == pc[r] = what

\* main.go:101-105, 117-119, 143-145, 158-160
RouteStatError(r) ==
    /\ Routed(r, "stat_error")
    /\ Reply(r, HttpError("stat"))
    /\ UNCHANGED <<osvars, gone, fs, tmpOutputDir, tmpDirs, outFile, sendq, url, loc, proc, hist>>

\* main.go:106-109
RouteRedirect(r) ==
    /\ Routed(r, "redirect")
    /\ Reply(r, HttpRedirect(url[r]))
    /\ UNCHANGED <<osvars, gone, fs, tmpOutputDir, tmpDirs, outFile, sendq, url, loc, proc, hist>>

\* main.go:120-140: the bootstrap page
RoutePage(r) ==
    /\ Routed(r, "page")
    /\ Reply(r, IF EnvPanics(environ) THEN Response(0, "panic")
                ELSE [Response(200, "page") EXCEPT !.data = RenderPage(loc[r].output)])
    /\ UNCHANGED <<osvars, gone, fs, tmpOutputDir, tmpDirs, outFile, sendq, url, loc, proc, hist>>

\* main.go:146-155: `go env GOROOT` fails (500), or the shim is served from GOROOT
RouteShim(r) ==
    /\ Routed(r, "shim")
    /\ \E ok \in BOOLEAN : Reply(r, IF ok THEN Response(200, "shim") ELSE HttpError("goenv"))
    /\ UNCHANGED <<osvars, gone, fs, tmpOutputDir, tmpDirs, outFile, sendq, url, loc, proc, hist>>

\* main.go:218
RouteStatic(r) ==
    /\ Routed(r, "static")
    /\ Reply(r, ServeFile(url[r]))
    /\ UNCHANGED <<osvars, gone, fs, tmpOutputDir, tmpDirs, outFile, sendq, url, loc, proc, hist>>

\* ------------------------------------------------------------- the build
\* main.go:166-189: os.Executable fails (500), or `go run -exec exc ... <output>/main.wasm`
\* is started with WASMSERVE=cp in its environment.
RouteBuild(r) ==
    /\ Routed(r, "build")
    /\ \/ /\ Reply(r, HttpError("executable"))
          /\ UNCHANGED proc
       \/ /\ proc' = [proc EXCEPT ![r] = [st |-> "compile", off |-> 0]]
          /\ Goto(r, "run")
          /\ UNCHANGED resp
    /\ UNCHANGED <<osvars, gone, fs, tmpOutputDir, tmpDirs, outFile, sendq, url, loc, hist>>

\* The toolchain compiles the package, then runs the -exec program (this
\* executable, in copy mode) on the compiled binary; or fails with diagnostics.
Compile(r) ==
    /\ proc[r].st = "compile"
    /\ \E ok \in BOOLEAN : proc' = [proc EXCEPT ![r].st = IF ok THEN "cp_open" ELSE "failed"]
    /\ UNCHANGED <<osvars, gone, fs, tmpOutputDir, tmpDirs, outFile, sendq, url, pc, loc, resp, hist>>

\* main.go:239-246: copy mode opens its input
CopyOpen(r) ==
    /\ proc[r].st = "cp_open"
    /\ \E ok \in BOOLEAN : proc' = [proc EXCEPT ![r].st = IF ok THEN "cp_create" ELSE "failed"]
    /\ UNCHANGED <<osvars, gone, fs, tmpOutputDir, tmpDirs, outFile, sendq, url, pc, loc, resp, hist>>

\* main.go:249-252: os.Create truncates <output>/main.wasm
CopyCreate(r) ==
    /\ proc[r].st = "cp_create"
    /\ \/ /\ outFile' = [outFile EXCEPT ![loc[r].output] = [exists |-> TRUE, data |-> <<>>]]
          /\ proc' = [proc EXCEPT ![r].st = "cp_copy"]
       \/ /\ proc' = [proc EXCEPT ![r].st = "failed"]
          /\ UNCHANGED outFile
    /\ UNCHANGED <<osvars, gone, fs, tmpOutputDir, tmpDirs, sendq, url, pc, loc, resp, hist>>

\* A write of one chunk at the descriptor's own offset.
WriteAt(data, off, c) ==
    [i \in 1..(IF Len(data) > off THEN Len(data) ELSE off + 1) |->
        IF i = off + 1 THEN c ELSE IF i <= Len(data) THEN data[i] ELSE 0]

\* main.go:255-257: io.Copy writes the artifact chunk by chunk, or fails
CopyWrite(r) ==
    /\ proc[r].st = "cp_copy"
    /\ proc[r].off < NChunks
    /\ \/ /\ outFile' = [outFile EXCEPT ![loc[r].output].data = WriteAt(@, proc[r].off, r)]
          /\ proc' = [proc EXCEPT ![r].off = @ + 1]
       \/ /\ proc' = [proc EXCEPT ![r].st = "failed"]
          /\ UNCHANGED outFile
    /\ UNCHANGED <<osvars, gone, fs, tmpOutputDir, tmpDirs, sendq, url, pc, loc, resp, hist>>

\* main.go:259 and the deferred Close calls: the copy returns and the process exits
CopyExit(r) ==
    /\ proc[r].st = "cp_copy"
    /\ proc[r].off = NChunks
    /\ proc' = [proc EXCEPT ![r].st = "exited"]
    /\ UNCHANGED <<osvars, gone, fs, tmpOutputDir, tmpDirs, outFile, sendq, url, pc, loc, resp, hist>>

\* Faulty variant: a server that runs a failed build once more by itself.
BuildReturnRetry(r) ==
    /\ pc[r] = "run"
    /\ proc[r].st \in {"exited", "failed"}
    /\ hist' = [hist EXCEPT ![r].builds = @ + 1]
    /\ IF proc[r].st = "failed" /\ hist[r].builds = 0
          THEN proc' = [proc EXCEPT ![r] = [st |-> "compile", off |-> 0]] /\ UNCHANGED <<pc, resp>>
          ELSE /\ UNCHANGED proc
               /\ IF proc[r].st = "failed"
                     THEN Reply(r, [HttpError("diag") EXCEPT !.data = <<r>>])
                     ELSE Goto(r, "open") /\ UNCHANGED resp
    /\ UNCHANGED <<osvars, gone, fs, tmpOutputDir, tmpDirs, outFile, sendq, url, loc>>

\* main.go:189-195: CombinedOutput returns; a failed build is answered 500 with
\* the subprocess's combined output
BuildReturn(r) ==
    /\ pc[r] = "run"
    /\ proc[r].st \in {"exited", "failed"}
    /\ hist' = [hist EXCEPT ![r].builds = @ + 1]
    /\ IF proc[r].st = "failed"
          THEN Reply(r, [HttpError("diag") EXCEPT !.data = <<r>>])
          ELSE Goto(r, "open") /\ UNCHANGED resp
    /\ UNCHANGED <<osvars, gone, fs, tmpOutputDir, tmpDirs, outFile, sendq, url, loc, proc>>

\* main.go:200-204: os.Open(<output>/main.wasm)
OpenArtifact(r) ==
    /\ pc[r] = "open"
    /\ \/ /\ outFile[loc[r].output].exists
          /\ Goto(r, "serve")
          /\ UNCHANGED resp
       \/ Reply(r, HttpError("open"))
    /\ UNCHANGED <<osvars, gone, fs, tmpOutputDir, tmpDirs, outFile, sendq, url, loc, proc, hist>>

\* main.go:205-208: ServeContent streams the open file, then f.Close()
ServeArtifact(r) ==
    /\ pc[r] = "serve"
    /\ Reply(r, [Response(200, "artifact") EXCEPT !.data = outFile[loc[r].output].data])
    /\ UNCHANGED <<osvars, gone, fs, tmpOutputDir, tmpDirs, outFile, sendq, url, loc, proc, hist>>

\* ------------------------------------------------------------- the rendezvous
\* Faulty variant: the channel made with a buffer (make(chan struct{}, 1)): the send
\* completes at once, with no receiver.
SendBuffered(r) ==
    /\ pc[r] = "wait"
    /\ Goto(r, "wake")
    /\ UNCHANGED <<osvars, gone, fs, tmpOutputDir, tmpDirs, outFile, sendq, url, loc, proc, resp, hist>>

\* main.go:210-211, 222: waitChannel <- struct{}{} on a channel of capacity 0 with no
\* receiver parked (notifyWaiters never parks): the sender joins the
\* channel's send queue and parks.
Send(r) ==
    /\ pc[r] = "wait"
    /\ sendq' = Append(sendq, r)
    /\ Goto(r, "parked")
    /\ UNCHANGED <<osvars, gone, fs, tmpOutputDir, tmpDirs, outFile, url, loc, proc, resp, hist>>

\* Faulty variant: a broadcast: one receive step releases every parked sender, as
\* close(waitChannel) on a channel the waiters receive from would.
ReceiveAll(n) ==
    /\ pc[n] = "notify"
    /\ sendq # <<>>
    /\ sendq' = <<>>
    /\ pc' = [q \in Req |-> IF q \in Parked THEN "wake" ELSE pc[q]]
    /\ hist' = [q \in Req |-> IF q \in Parked THEN [hist[q] EXCEPT !.by = n] ELSE hist[q]]
    /\ UNCHANGED <<osvars, gone, fs, tmpOutputDir, tmpDirs, outFile, url, loc, proc, resp>>

\* Faulty variant: a notifier that answers after its first receive.
ReceiveOnce(n) ==
    /\ pc[n] = "notify"
    /\ sendq # <<>>
    /\ sendq' = Tail(sendq)
    /\ pc' = [pc EXCEPT ![Head(sendq)] = "wake", ![n] = "done"]
    /\ resp' = [resp EXCEPT ![n] = ServeEmpty]
    /\ hist' = [hist EXCEPT ![Head(sendq)].by = n]
    /\ UNCHANGED <<osvars, gone, fs, tmpOutputDir, tmpDirs, outFile, url, loc, proc>>

\* main.go:228-229: the select finds a parked sender: it receives from the
\* first one, which becomes runnable, and loops.
Receive(n) ==
    /\ pc[n] = "notify"
    /\ sendq # <<>>
    /\ sendq' = Tail(sendq)
    /\ pc' = [pc EXCEPT ![Head(sendq)] = "wake"]
    /\ hist' = [hist EXCEPT ![Head(sendq)].by = n]
    /\ UNCHANGED <<osvars, gone, fs, tmpOutputDir, tmpDirs, outFile, url, loc, proc, resp>>

\* Faulty variant: the default case taken although a sender is ready.
NotifyDefaultAlways(n) ==
    /\ pc[n] = "notify"
    /\ Reply(n, ServeEmpty)
    /\ UNCHANGED <<osvars, gone, fs, tmpOutputDir, tmpDirs, outFile, sendq, url, loc, proc, hist>>

\* Faulty variant: a select without default: the notifier answers only after a receive.
NotifyBlocking(n) ==
    /\ pc[n] = "notify"
    /\ sendq # <<>>
    /\ sendq' = Tail(sendq)
    /\ pc' = [pc EXCEPT ![Head(sendq)] = "wake", ![n] = "done"]
    /\ resp' = [resp EXCEPT ![n] = ServeEmpty]
    /\ hist' = [hist EXCEPT ![Head(sendq)].by = n]
    /\ UNCHANGED <<osvars, gone, fs, tmpOutputDir, tmpDirs, outFile, url, loc, proc>>

\* main.go:213-215, 230-232: no sender is ready: the default case answers 200 and returns
NotifyDefault(n) ==
    /\ pc[n] = "notify"
    /\ sendq = <<>>
    /\ Reply(n, ServeEmpty)
    /\ UNCHANGED <<osvars, gone, fs, tmpOutputDir, tmpDirs, outFile, sendq, url, loc, proc, hist>>

\* Faulty variant: a wait that gives up by itself (a timeout) while still parked.
WaitRespondTimeout(r) ==
    /\ pc[r] \in {"parked", "wake"}
    /\ sendq' = SelectSeq(sendq, LAMBDA q : q # r)
    /\ Reply(r, ServeEmpty)
    /\ UNCHANGED <<osvars, gone, fs, tmpOutputDir, tmpDirs, outFile, url, loc, proc, hist>>

\* main.go:223: the send has completed; the waiter answers 200
WaitRespond(r) ==
    /\ pc[r] = "wake"
    /\ Reply(r, ServeEmpty)
    /\ UNCHANGED <<osvars, gone, fs, tmpOutputDir, tmpDirs, outFile, sendq, url, loc, proc, hist>>

\* The client of a request parked in waitForUpdate closes its connection.
\* net/http cancels r.Context(); the send of main.go:222 is no select on
\* r.Context().Done(), so the goroutine stays where it is, in the send queue.
Disconnect(r) ==
    /\ pc[r] = "parked"
    /\ r \notin gone
    /\ gone' = gone \cup {r}
    /\ UNCHANGED <<osvars, fs, tmpOutputDir, tmpDirs, outFile, sendq, url, pc, loc, proc, resp, hist>>

\* ------------------------------------------------------------- main
\* os.Getenv("WASMSERVE") == "cp", main.go:239
Sentinel == Getenv(<<"WASMSERVE">>) = <<"cp">>

\* The temporary directory whose main.wasm flag.Args()[1] names (the server
\* passes filepath.Join(output, "main.wasm"), main.go:184).
CopyDst == CHOOSE d \in Dirs : OutputPath(d) = flagArgs[2]

MainStep(st) ==
    /\ mainp' = [mainp EXCEPT !.st = st]
    /\ UNCHANGED <<gone, fs, tmpOutputDir, tmpDirs, outFile, sendq, url, pc, loc, proc,
                   resp, hist, flagArgs, environ>>

\* main.go:238-241 and 262: with the sentinel, copy mode takes its two
\* arguments (an index out of range panics); without it the handler is
\* registered.
MainStart ==
    /\ mainp.st = "start"
    /\ MainStep(IF Sentinel THEN (IF Len(flagArgs) < 2 THEN "panic" ELSE "cp_open")
                ELSE "registered")

\* main.go:263: ListenAndServe serves, or returns an error to log.Fatal
MainListen ==
    /\ mainp.st = "registered"
    /\ \E ok \in BOOLEAN : MainStep(IF ok THEN "serving" ELSE "listen_failed")

\* main.go:243-247: os.Open(in)
MainCopyOpen ==
    /\ mainp.st = "cp_open"
    /\ \E ok \in BOOLEAN : MainStep(IF mainp.in.exists /\ ok THEN "cp_create" ELSE "fatal")

\* Faulty variant: the destination opened without O_TRUNC.
MainCopyCreateNoTrunc ==
    /\ mainp.st = "cp_create"
    /\ outFile' = [outFile EXCEPT ![CopyDst].exists = TRUE]
    /\ mainp' = [mainp EXCEPT !.st = "cp_copy"]
    /\ UNCHANGED <<gone, fs, tmpOutputDir, tmpDirs, sendq, url, pc, loc, proc,
                   resp, hist, flagArgs, environ>>

\* main.go:249-253: os.Create(out) creates the destination or truncates it
MainCopyCreate ==
    /\ mainp.st = "cp_create"
    /\ \/ /\ outFile' = [outFile EXCEPT ![CopyDst] = [exists |-> TRUE, data |-> <<>>]]
          /\ mainp' = [mainp EXCEPT !.st = "cp_copy"]
       \/ /\ mainp' = [mainp EXCEPT !.st = "fatal"]
          /\ UNCHANGED outFile
    /\ UNCHANGED <<gone, fs, tmpOutputDir, tmpDirs, sendq, url, pc, loc, proc,
                   resp, hist, flagArgs, environ>>

\* main.go:255-257: io.Copy writes the source chunk by chunk, or fails
MainCopyWrite ==
    /\ mainp.st = "cp_copy"
    /\ mainp.off < Len(mainp.in.data)
    /\ \/ /\ outFile' = [outFile EXCEPT
                            ![CopyDst].data = WriteAt(@, mainp.off, mainp.in.data[mainp.off + 1])]
          /\ mainp' = [mainp EXCEPT !.off = @ + 1]
       \/ /\ mainp' = [mainp EXCEPT !.st = "fatal"]
          /\ UNCHANGED outFile
    /\ UNCHANGED <<gone, fs, tmpOutputDir, tmpDirs, sendq, url, pc, loc, proc,
                   resp, hist, flagArgs, environ>>

\* main.go:259: the copy is complete, main returns
MainCopyExit ==
    /\ mainp.st = "cp_copy"
    /\ mainp.off = Len(mainp.in.data)
    /\ MainStep("exited")

\* ------------------------------------------------------------- specifications
\* The rendezvous: /_wait and /_notify requests in every interleaving.
RendezvousUrls == {Url(<<"_wait">>, FALSE), Url(<<"_notify">>, FALSE)}

InitRendezvous == InitShared /\ InitProcess /\ fs = EmptyFs

NextRendezvous ==
    \E r \in Req :
        \/ \E u \in RendezvousUrls : Arrive(r, u)
        \/ EnsureMkdir(r)
        \/ EnsureAssign(r)
        \/ EnsureReturn(r)
        \/ Send(r)
        \/ Receive(r)
        \/ NotifyDefault(r)
        \/ WaitRespond(r)

SpecRendezvous == InitRendezvous /\ [][NextRendezvous]_vars

\* The rendezvous with clients that give up: a client of a parked /_wait may
\* close its connection.
NextCancel ==
    \E r \in Req :
        \/ \E u \in RendezvousUrls : Arrive(r, u)
        \/ EnsureMkdir(r)
        \/ EnsureAssign(r)
        \/ EnsureReturn(r)
        \/ Send(r)
        \/ Disconnect(r)
        \/ Receive(r)
        \/ NotifyDefault(r)
        \/ WaitRespond(r)

SpecCancel == InitRendezvous /\ [][NextCancel]_vars


\* The router: requests served one at a time, over every working directory
\* and URL of the sets below.
InFlight == {q \in Req : pc[q] \notin {"idle", "done"}}

\* Working directories: files main.wasm, index.html, wasm_exec.js and a
\* directory d at the top, and main.wasm and a directory e inside d; stat of
\* ./main.wasm may also fail (a permission or I/O error).
FsEntries ==
    {<<"index.html">>, <<"wasm_exec.js">>, <<"d">>, <<"d", "main.wasm">>, <<"d", "e">>}
FsKind(p) == IF p \in {<<"d">>, <<"d", "e">>} THEN "dir" ELSE "file"
FsClosed(S) == \A p \in S : Len(p) > 1 => SubSeq(p, 1, Len(p) - 1) \in S
RouterFs ==
    {[p \in S \cup {<<"main.wasm">>} |-> IF p = <<"main.wasm">> THEN k ELSE FsKind(p)] :
        S \in {T \in SUBSET FsEntries : FsClosed(T)}, k \in {"absent", "file", "err"}}

RouterUrls ==
    {Url(<<>>, TRUE), Url(<<"d">>, FALSE), Url(<<"d">>, TRUE),
     Url(<<"main.wasm">>, FALSE), Url(<<"index.html">>, FALSE), Url(<<"wasm_exec.js">>, FALSE),
     Url(<<"d", "main.wasm">>, FALSE), Url(<<"d", "e">>, FALSE), Url(<<"d", "wasm_exec.js">>, FALSE),
     Url(<<"x.css">>, FALSE), Url(<<"_notify">>, FALSE), Url(<<"_wait">>, FALSE)}

InitRouter == InitShared /\ InitProcess /\ fs \in RouterFs

ArriveRouter(r, u) == r <= NRouted /\ InFlight = {} /\ Arrive(r, u)

NextRouter ==
    \E r \in Req :
        \/ \E u \in RouterUrls : ArriveRouter(r, u)
        \/ EnsureMkdir(r)
        \/ EnsureAssign(r)
        \/ EnsureReturn(r)
        \/ RouteStatError(r)
        \/ RouteRedirect(r)
        \/ RoutePage(r)
        \/ RouteShim(r)
        \/ RouteStatic(r)
        \/ RouteBuild(r)
        \/ Compile(r)
        \/ CopyOpen(r)
        \/ CopyCreate(r)
        \/ CopyWrite(r)
        \/ CopyExit(r)
        \/ BuildReturn(r)
        \/ OpenArtifact(r)
        \/ ServeArtifact(r)
        \/ NotifyDefault(r)
        \/ Send(r)

SpecRouter == InitRouter /\ [][NextRouter]_vars

\* The builder: concurrent requests for /main.wasm, none on disk.
BuilderUrls == {Url(<<"main.wasm">>, FALSE)}

InitBuilder == InitShared /\ InitProcess /\ fs = EmptyFs

ArriveBuilder(r, u) == r <= NBuilders /\ Arrive(r, u)

NextBuilder ==
    \E r \in Req :
        \/ \E u \in BuilderUrls : ArriveBuilder(r, u)
        \/ EnsureMkdir(r)
        \/ EnsureAssign(r)
        \/ EnsureReturn(r)
        \/ RouteBuild(r)
        \/ Compile(r)
        \/ CopyOpen(r)
        \/ CopyCreate(r)
        \/ CopyWrite(r)
        \/ CopyExit(r)
        \/ BuildReturn(r)
        \/ OpenArtifact(r)
        \/ ServeArtifact(r)

SpecBuilder == InitBuilder /\ [][NextBuilder]_vars

\* main(): the process from its start, with and without the sentinel in its
\* environment, over every source file and every previous state of the
\* destination.
Contents(S, n) == UNION {[1..k -> S] : k \in 0..n}
NoFile == [exists |-> FALSE, data |-> <<>>]

MainEnvs ==
    {<<>>,
     << <<"WASMSERVE", "=", "cp">> >>,
     << <<"HOME", "=", "/", "r">>, <<"WASMSERVE", "=", "cp">> >>,
     << <<"WASMSERVE", "=", "c">> >>}

MainArgs == {<< <<"in">>, OutputPath(1) >>, << <<"in">> >>}

InitMain ==
    /\ fs = EmptyFs
    /\ tmpOutputDir = 0
    /\ tmpDirs = 0
    /\ \E old \in {NoFile} \cup {[exists |-> TRUE, data |-> c] : c \in Contents({0}, NChunks + 1)} :
          outFile = [d \in Dirs |-> IF d = 1 THEN old ELSE NoFile]
    /\ sendq = <<>>
    /\ url = [r \in Req |-> NoUrl]
    /\ pc = [r \in Req |-> "idle"]
    /\ loc = [r \in Req |-> NoLocals]
    /\ proc = [r \in Req |-> NoProc]
    /\ resp = [r \in Req |-> NoResp]
    /\ hist = [r \in Req |-> HistInit]
    /\ gone = {}
    /\ flagArgs \in MainArgs
    /\ environ \in MainEnvs
    /\ mainp \in {[st |-> "start", off |-> 0, in |-> f] :
                    f \in {NoFile} \cup {[exists |-> TRUE, data |-> c] : c \in Contents({1, 2}, NChunks)}}

NextMain ==
    \/ MainStart
    \/ MainListen
    \/ MainCopyOpen
    \/ MainCopyCreate
    \/ MainCopyWrite
    \/ MainCopyExit

SpecMain == InitMain /\ [][NextMain]_vars

\* The bootstrap page: one request for / or /index.html, none on disk, over the
\* positional arguments and the environments of the sets below.
ArgChars == {"a", Quote, Backslash, "<"}
EnvChars == {"a", Quote, "="}

\* A first argument of up to MaxLen characters, then short ones.
PageArgs ==
    {<<>>} \cup {<<a>> \o rest : a \in Contents(ArgChars, MaxLen),
                                 rest \in Contents({<<Quote>>, <<"a">>}, NArgs - 1)}

\* A first entry K=value, then nothing, an entry L=", or an entry without "=".
PageEnvs ==
    {<<>>} \cup {<< <<"K", "=">> \o v >> \o rest :
                    v \in Contents(EnvChars, MaxLen),
                    rest \in {<<>>, << <<"L", "=", Quote>> >>, << <<"M">> >>}}

PageUrls == {Url(<<>>, TRUE), Url(<<"index.html">>, FALSE)}

InitPage ==
    /\ InitShared
    /\ fs = EmptyFs
    /\ mainp = Serving
    /\ \/ flagArgs \in PageArgs /\ environ = << <<"K", "=", Quote>> >>
       \/ flagArgs = << <<Quote>> >> /\ environ \in PageEnvs

ArrivePage(r, u) == r = 1 /\ Arrive(r, u)

NextPage ==
    \E r \in Req :
        \/ \E u \in PageUrls : ArrivePage(r, u)
        \/ EnsureMkdir(r)
        \/ EnsureAssign(r)
        \/ EnsureReturn(r)
        \/ RoutePage(r)

SpecPage == InitPage /\ [][NextPage]_vars

\* Stat errors: one request, over working directories in which each of the
\* names the handler stats is absent, a file, or fails to stat.
StatNames == {<<"index.html">>, <<"wasm_exec.js">>, <<"main.wasm">>, <<"_notify">>}
StatFs == [StatNames -> {"absent", "file", "err"}]

StatUrls ==
    {Url(<<>>, TRUE), Url(<<"index.html">>, FALSE), Url(<<"wasm_exec.js">>, FALSE),
     Url(<<"main.wasm">>, FALSE), Url(<<"main.wasm">>, TRUE),
     Url(<<"_notify">>, FALSE), Url(<<"_notify">>, TRUE)}

InitStat == InitShared /\ InitProcess /\ fs \in StatFs

ArriveStat(r, u) == r = 1 /\ Arrive(r, u)

NextStat ==
    \E r \in Req :
        \/ \E u \in StatUrls : ArriveStat(r, u)
        \/ EnsureMkdir(r)
        \/ EnsureAssign(r)
        \/ EnsureReturn(r)
        \/ RouteStatError(r)
        \/ RoutePage(r)
        \/ RouteShim(r)
        \/ RouteStatic(r)
        \/ RouteBuild(r)
        \/ Compile(r)
        \/ CopyOpen(r)
        \/ CopyCreate(r)
        \/ CopyWrite(r)
        \/ CopyExit(r)
        \/ BuildReturn(r)
        \/ OpenArtifact(r)
        \/ ServeArtifact(r)
        \/ NotifyDefault(r)

SpecStat == InitStat /\ [][NextStat]_vars

\* Mixed traffic: artifact, static, /_wait and /_notify requests in every
\* interleaving, on a server that has created its output directory while
\* serving an earlier request; x.css is a file of the working directory,
\* main.wasm is not.
MixedUrls ==
    {Url(<<"main.wasm">>, FALSE), Url(<<"x.css">>, FALSE),
     Url(<<"_wait">>, FALSE), Url(<<"_notify">>, FALSE)}

InitMixed ==
    /\ fs = [p \in {<<"x.css">>} |-> "file"]
    /\ tmpOutputDir = 1
    /\ tmpDirs = 1
    /\ outFile = [d \in Dirs |-> NoFile]
    /\ sendq = <<>>
    /\ url = [r \in Req |-> NoUrl]
    /\ pc = [r \in Req |-> "idle"]
    /\ loc = [r \in Req |-> NoLocals]
    /\ proc = [r \in Req |-> NoProc]
    /\ resp = [r \in Req |-> NoResp]
    /\ hist = [r \in Req |-> HistInit]
    /\ gone = {}
    /\ InitProcess

\* One artifact request at a time (concurrent builds are the builder
\* scenario), among any static, /_wait and /_notify requests.
ArriveMixed(r, u) ==
    /\ PathBase(u) = "main.wasm" =>
          \A q \in Req : (pc[q] # "idle" /\ PathBase(url[q]) = "main.wasm") => pc[q] = "done"
    /\ Arrive(r, u)

NextMixed ==
    \E r \in Req :
        \/ \E u \in MixedUrls : ArriveMixed(r, u)
        \/ EnsureReturn(r)
        \/ RouteStatic(r)
        \/ RouteBuild(r)
        \/ Compile(r)
        \/ CopyOpen(r)
        \/ CopyCreate(r)
        \/ CopyWrite(r)
        \/ CopyExit(r)
        \/ BuildReturn(r)
        \/ OpenArtifact(r)
        \/ ServeArtifact(r)
        \/ Send(r)
        \/ Receive(r)
        \/ NotifyDefault(r)
        \/ WaitRespond(r)

SpecMixed == InitMixed /\ [][NextMixed]_vars

\* The steps of the handler's goroutine, and those of its build subprocess.
StepMixed(r) ==
    \/ EnsureReturn(r) \/ RouteStatic(r) \/ RouteBuild(r) \/ BuildReturn(r)
    \/ OpenArtifact(r) \/ ServeArtifact(r)
    \/ Send(r) \/ Receive(r) \/ NotifyDefault(r) \/ WaitRespond(r)

BuildStep(r) == Compile(r) \/ CopyOpen(r) \/ CopyCreate(r) \/ CopyWrite(r) \/ CopyExit(r)

\* Runnable goroutines keep running; a build subprocess may take for ever.
FairMixed == SpecMixed /\ WF_vars(\E r \in Req : StepMixed(r))

\* Everything together: any URL, any working directory, NBuilders requests
\* in any interleaving.
Init == InitShared /\ InitProcess /\ fs \in RouterFs

ArriveAny(r, u) == r <= NBuilders /\ Arrive(r, u)

Next ==
    \E r \in Req :
        \/ \E u \in RouterUrls \cup RendezvousUrls : ArriveAny(r, u)
        \/ EnsureMkdir(r)
        \/ EnsureAssign(r)
        \/ EnsureReturn(r)
        \/ RouteStatError(r)
        \/ RouteRedirect(r)
        \/ RoutePage(r)
        \/ RouteShim(r)
        \/ RouteStatic(r)
        \/ RouteBuild(r)
        \/ Compile(r)
        \/ CopyOpen(r)
        \/ CopyCreate(r)
        \/ CopyWrite(r)
        \/ CopyExit(r)
        \/ BuildReturn(r)
        \/ OpenArtifact(r)
        \/ ServeArtifact(r)
        \/ Send(r)
        \/ Receive(r)
        \/ NotifyDefault(r)
        \/ WaitRespond(r)

Spec == Init /\ [][Next]_vars

\* The Go scheduler keeps running runnable goroutines: while some handler has a
\* step to take, a step is taken.
StepRendezvous(r) ==
    \/ EnsureMkdir(r) \/ EnsureAssign(r) \/ EnsureReturn(r)
    \/ Send(r) \/ Receive(r) \/ NotifyDefault(r) \/ WaitRespond(r)

FairRendezvous == SpecRendezvous /\ WF_vars(\E r \in Req : StepRendezvous(r))

\* ------------------------------------------------------------- vocabulary of the claims
Arrived(r) == pc[r] # "idle"
Done(r) == pc[r] = "done"
IsWaitReq(r) == Arrived(r) /\ PathBase(url[r]) = "_wait"
IsNotifyReq(r) == Arrived(r) /\ PathBase(url[r]) = "_notify"
\* The request's response is the empty 200 of waitForUpdate / notifyWaiters.
Empty200(r) == resp[r].status = 200 /\ resp[r].kind = "empty" /\ resp[r].n = 1
\* The request was answered 500 because ioutil.TempDir failed.
TempDirFailed(r) == resp[r].status = 500 /\ resp[r].kind = "tempdir" /\ resp[r].n = 1
\* The waiters a /_notify request has released.
ReleasedBy(n) == {w \in Req : hist[w].by = n}
Released == {w \in Req : hist[w].by # 0}

\* A waiter's send completes only in a step of a /_notify request that is
\* inside notifyWaiters at that step, and only from the parked state.
ReleaseStep ==
    \A w \in Req :
        (pc'[w] = "wake" /\ pc[w] # "wake") =>
            /\ pc[w] = "parked"
            /\ hist[w].by = 0
            /\ hist'[w].by \in Req
            /\ pc[hist'[w].by] = "notify"

C2_ExactlyOnce ==
    /\ [](\A w \in Req :
            /\ resp[w].n <= 1
            /\ (w \in Released => w \notin Parked)
            /\ (IsWaitReq(w) /\ w \in Released) =>
                  \/ pc[w] = "wake" /\ resp[w].n = 0 /\ ENABLED WaitRespond(w)
                  \/ Done(w) /\ Empty200(w))
    /\ [][/\ \A w \in Req : hist[w].by # 0 => hist'[w].by = hist[w].by
          /\ \A n \in Req : (pc[n] = "notify" /\ pc'[n] = "done") => Parked = {}
          /\ \A w \in Req : (resp'[w] # resp[w] /\ IsWaitReq(w) /\ resp'[w].status = 200)
                                => (hist[w].by # 0 /\ resp[w].n = 0)]_vars

\* A wait was released by a notify and both have produced their response.
C2_Witness ==
    \E w, n \in Req :
        /\ IsWaitReq(w) /\ hist[w].by = n /\ Done(w) /\ Empty200(w)
        /\ IsNotifyReq(n) /\ Done(n)

CompletedWaits == {w \in Req : IsWaitReq(w) /\ Done(w) /\ resp[w].status = 200}

C5_WaitNeedsNotify ==
    /\ \A w \in CompletedWaits :
          /\ hist[w].by \in Req
          /\ IsNotifyReq(hist[w].by)
          /\ pc[hist[w].by] \in {"notify", "done"}
    /\ Cardinality(CompletedWaits) <= Cardinality(Released)
    /\ \A w \in Req : (IsWaitReq(w) /\ Done(w)) => (Empty200(w) \/ TempDirFailed(w))

\* One wait has completed through a hand-off while another is still parked.
C5_Witness ==
    \E w1, w2 \in Req :
        /\ w1 \in CompletedWaits /\ hist[w1].by # 0
        /\ IsWaitReq(w2) /\ pc[w2] = "parked"

\* ------------------------------------------------------------- C6
\* The bytes the build of request r produces.
Artifact(r) == [i \in 1..NChunks |-> r]
\* The request names the artifact and no file exists at its URL path.
ArtifactReq(r) == Arrived(r) /\ PathBase(url[r]) = "main.wasm" /\ Stat(url[r].segs) = "absent"
\* The request was answered 500 because the environment failed (TempDir,
\* os.Executable, os.Open), not the build.
EnvFailed(r) == resp[r].status = 500 /\ resp[r].kind \in {"tempdir", "executable", "open"}

\* C6 (as stated, environment failures aside): every request for main.wasm with
\* no file at that path runs exactly one build for that request, and answers
\* 500 with that build's diagnostics when it failed, 200 with the artifact
\* bytes when it succeeded.
C6_Original ==
    \A r \in Req :
        (ArtifactReq(r) /\ Done(r) /\ ~EnvFailed(r)) =>
            /\ hist[r].builds = 1
            /\ \/ /\ proc[r].st = "failed"
                  /\ resp[r].status = 500 /\ resp[r].kind = "diag" /\ resp[r].data = <<r>>
               \/ /\ proc[r].st = "exited"
                  /\ resp[r].status = 200 /\ resp[r].kind = "artifact"
                  /\ resp[r].data = Artifact(r)

\* ------------------------------------------------------------- C7
\* C7 (as stated, environment failures aside): a request whose URL path exists
\* as a file on disk never invokes the build, at any directory depth and
\* whatever its last segment; it is served by the static file server.
C7_Original ==
    \A r \in Req :
        (Arrived(r) /\ Stat(url[r].segs) = "file") =>
            /\ proc[r].st = "none"
            /\ hist[r].builds = 0
            /\ Done(r) => (EnvFailed(r) \/ resp[r].kind \in {"static", "redirect"})

\* ------------------------------------------------------------- C8
\* C8 (as stated): a request for an existing directory, at any depth, without
\* trailing slash is answered 303 to the same path with the slash appended.
C8_Original ==
    \A r \in Req :
        (Done(r) /\ ~HasSuffixSlash(url[r]) /\ url[r].segs # <<>>
                 /\ Stat(url[r].segs) = "dir" /\ ~TempDirFailed(r)) =>
            /\ resp[r].status = 303
            /\ resp[r].to = AddSlash(url[r])

\* ------------------------------------------------------------- C9
\* C9 (as stated): the temporary directory is created once, every request
\* observes the same path, and the path, once assigned, never changes.
C9_Original ==
    /\ [](/\ tmpDirs <= 1
          /\ \A r, q \in Req :
                (loc[r].output # 0 /\ loc[q].output # 0) => loc[r].output = loc[q].output)
    /\ [][tmpOutputDir # 0 => tmpOutputDir' = tmpOutputDir]_vars

\* ------------------------------------------------------------- C10
\* A copy step holds <dir>/main.wasm open for writing (created, not yet closed).
Writing(q, d) == proc[q].st = "cp_copy" /\ loc[q].output = d

\* C10 (as stated): while a 200 response has the artifact file open to stream
\* it, no build's copy step is truncating or writing that file.
C10_Original ==
    \A r \in Req : pc[r] = "serve" => \A q \in Req : ~Writing(q, loc[r].output)

\* ------------------------------------------------------------- C11
\* C11 (as stated): once the client of a /_wait request has disconnected, its
\* wait is abandoned: no waiter is left pending on the channel on its behalf
\* for a later notify to find, so no receive of a notify is consumed by a
\* waiter whose connection is gone.
C11_Original ==
    [][\A w \in Req : (pc[w] = "parked" /\ pc'[w] = "wake") => w \notin gone]_vars

\* ------------------------------------------------------------- C12
\* The copy has a valid source and destination: two arguments, the first
\* naming an existing file.
ValidCopyArgs == Len(flagArgs) >= 2 /\ mainp.in.exists

\* C12: started with WASMSERVE=cp and a valid source and destination, main()
\* never registers the handler nor listens, every step of the copy has its
\* successful outcome enabled, and when main() returns the destination holds
\* exactly the bytes of the source, whatever it held before; started without
\* the sentinel, main() registers the handler and listens, never enters the
\* copy, and no step of it writes the destination.
C12_CopyMode ==
    /\ [](/\ Sentinel => mainp.st \notin {"registered", "serving", "listen_failed"}
          /\ (~Sentinel) => mainp.st \in {"start", "registered", "serving", "listen_failed"}
          /\ mainp.st = "exited" =>
                (Sentinel /\ ValidCopyArgs /\ outFile[CopyDst] = mainp.in)
          /\ (Sentinel /\ ValidCopyArgs) =>
                /\ mainp.st # "panic"
                /\ mainp.st = "start" => ENABLED (MainStart /\ mainp'.st = "cp_open")
                /\ mainp.st = "cp_open" => ENABLED (MainCopyOpen /\ mainp'.st = "cp_create")
                /\ mainp.st = "cp_create" => ENABLED (MainCopyCreate /\ mainp'.st = "cp_copy")
                /\ mainp.st = "cp_copy" =>
                      ENABLED ((MainCopyWrite \/ MainCopyExit) /\ mainp'.st # "fatal")
          /\ (~Sentinel /\ mainp.st = "start") => ENABLED (MainStart /\ mainp'.st = "registered")
          /\ mainp.st = "registered" => ENABLED (MainListen /\ mainp'.st = "serving"))
    /\ [][(~Sentinel) => outFile' = outFile]_vars

\* Copy mode has returned after replacing a longer destination by a source of
\* NChunks chunks.
C12_Witness ==
    /\ Sentinel /\ mainp.st = "exited"
    /\ Len(mainp.in.data) = NChunks
    /\ outFile[CopyDst].data = mainp.in.data

\* ------------------------------------------------------------- C13
\* How a JavaScript engine reads the script.  A string literal after its
\* opening quote: a backslash takes the next character with it (\uXXXX: the
\* character of that code), a quote that no backslash took ends the literal.
Failed == [ok |-> FALSE, val |-> <<>>, rest |-> <<>>]

Unhex(h) == IF h = <<"0", "0", "3", "C">> THEN "<" ELSE IF h = <<"0", "0", "3", "D">> THEN "=" ELSE "?"

RECURSIVE JSStringBody(_)
JSStringBody(t) ==
    IF t = <<>> THEN Failed
    ELSE IF t[1] = Quote THEN [ok |-> TRUE, val |-> <<>>, rest |-> Tail(t)]
    ELSE IF t[1] = Backslash
        THEN IF Len(t) >= 6 /\ t[2] = "u"
                THEN LET r == JSStringBody(SubSeq(t, 7, Len(t)))
                     IN [r EXCEPT !.val = <<Unhex(SubSeq(t, 3, 6))>> \o @]
             ELSE IF Len(t) >= 2
                THEN LET r == JSStringBody(SubSeq(t, 3, Len(t)))
                     IN [r EXCEPT !.val = <<t[2]>> \o @]
             ELSE Failed
    ELSE LET r == JSStringBody(Tail(t)) IN [r EXCEPT !.val = <<t[1]>> \o @]

\* The elements of an array literal after "[" : string literals separated by
\* ", " up to "]".
RECURSIVE JSElements(_)
JSElements(t) ==
    IF t # <<>> /\ t[1] = "]" THEN [ok |-> TRUE, val |-> <<>>, rest |-> Tail(t)]
    ELSE IF t = <<>> \/ t[1] # Quote THEN Failed
    ELSE LET s == JSStringBody(Tail(t)) IN
         IF ~s.ok THEN Failed
         ELSE IF Len(s.rest) >= 3 /\ s.rest[1] = "," /\ s.rest[2] = " " /\ s.rest[3] = Quote
            THEN LET e == JSElements(SubSeq(s.rest, 3, Len(s.rest)))
                 IN IF e.ok THEN [e EXCEPT !.val = <<s.val>> \o @] ELSE Failed
         ELSE IF s.rest # <<>> /\ s.rest[1] = "]"
            THEN [ok |-> TRUE, val |-> <<s.val>>, rest |-> Tail(s.rest)]
         ELSE Failed

\* The properties of an object literal after "{" :  key: "value"  separated
\* by ", " up to "}"; read as the entries key=value.
RECURSIVE JSProperties(_)
JSProperties(t) ==
    IF t # <<>> /\ t[1] = "}" THEN [ok |-> TRUE, val |-> <<>>, rest |-> Tail(t)]
    ELSE IF Len(t) < 4 \/ t[2] # ":" \/ t[3] # " " \/ t[4] # Quote THEN Failed
    ELSE LET s == JSStringBody(SubSeq(t, 5, Len(t)))
             entry == <<t[1], "=">> \o s.val IN
         IF ~s.ok THEN Failed
         ELSE IF Len(s.rest) >= 3 /\ s.rest[1] = "," /\ s.rest[2] = " " /\ s.rest[3] # "}"
            THEN LET e == JSProperties(SubSeq(s.rest, 3, Len(s.rest)))
                 IN IF e.ok THEN [e EXCEPT !.val = <<entry>> \o @] ELSE Failed
         ELSE IF s.rest # <<>> /\ s.rest[1] = "}"
            THEN [ok |-> TRUE, val |-> <<entry>>, rest |-> Tail(s.rest)]
         ELSE Failed

\* The script of a page: go.argv = [...]; go.env = {...}; and the rest.
ReadPage(page) ==
    IF Len(page) < 2 \/ page[1] # indexHTML[1] \/ page[2] # "[" THEN [ok |-> FALSE]
    ELSE LET a == JSElements(SubSeq(page, 3, Len(page))) IN
         IF (~a.ok) \/ Len(a.rest) < 2 \/ a.rest[1] # indexHTML[3] \/ a.rest[2] # "{"
            THEN [ok |-> FALSE]
         ELSE LET e == JSProperties(SubSeq(a.rest, 3, Len(a.rest))) IN
              [ok |-> e.ok /\ e.rest = <<indexHTML[5]>>, argv |-> a.val, env |-> e.val]

\* The positions of the double quotes of a text that no backslash escapes.
RECURSIVE RawQuotes(_, _)
RawQuotes(t, i) ==
    IF i > Len(t) THEN {}
    ELSE IF t[i] = Backslash THEN RawQuotes(t, i + 2)
    ELSE (IF t[i] = Quote THEN {i} ELSE {}) \cup RawQuotes(t, i + 1)

\* The arguments the page is rendered from (main.go:121-124).
PageArgv(r) == IF flagArgs = <<>> THEN <<OutputPath(loc[r].output)>> ELSE flagArgs
IsPage(r) == resp[r].status = 200 /\ resp[r].kind = "page"

\* C13: in every rendered bootstrap page, the script reads back as the very
\* arguments and environment values of the process: each argv element and
\* each environment value is one string literal, and a double quote (or
\* backslash) of an element appears in escaped form only: the only raw quotes
\* of the page are the two delimiters of each literal.
C13_Escaped ==
    \A r \in Req :
        IsPage(r) =>
            /\ ReadPage(resp[r].data).ok
            /\ ReadPage(resp[r].data).argv = PageArgv(r)
            /\ ReadPage(resp[r].data).env = environ
            /\ Cardinality(RawQuotes(resp[r].data, 1)) = 2 * (Len(PageArgv(r)) + Len(environ))

\* A page was rendered from two arguments, the first a backslash followed by
\* a double quote, with a double quote as environment value.
C13_Witness ==
    \E r \in Req :
        /\ IsPage(r)
        /\ Len(flagArgs) = 2
        /\ flagArgs[1] = <<Backslash, Quote>>
        /\ \E i \in 1..Len(environ) : SplitN(environ[i])[2] = <<Quote>>

\* ------------------------------------------------------------- C14
\* The request waits for its own build subprocess, or for a receiver.
InBuild(r) == pc[r] = "run" /\ proc[r].st \notin {"exited", "failed"}
Waiting(r) == InBuild(r) \/ pc[r] = "parked"

\* C14: no lock serializes requests.  Whatever the other requests do (an
\* artifact request blocked in a build that never ends, a /_wait blocked for
\* ever), every /_notify and static request completes; a request is held up
\* by nothing but its own build or its own send: in every other position its
\* next step is enabled, a running notify can release the pending wait at the
\* head of the channel, and a build subprocess can always take its next step.
C14_NoGlobalLock ==
    /\ \A r \in Req :
          (Arrived(r) /\ PathBase(url[r]) \in {"_notify", "x.css"}) ~> Done(r)
    /\ [](\A r \in Req :
            /\ (Arrived(r) /\ ~Done(r) /\ ~Waiting(r)) => ENABLED StepMixed(r)
            /\ InBuild(r) => ENABLED BuildStep(r)
            /\ (pc[r] = "notify" /\ sendq # <<>>) =>
                  ENABLED (Receive(r) /\ pc'[Head(sendq)] = "wake"))

\* The artifact request is blocked in its build, and meanwhile a /_wait has
\* been released by a /_notify and both have completed.
C14_Witness ==
    \E a, w, n \in Req :
        /\ ArtifactReq(a) /\ InBuild(a)
        /\ IsWaitReq(w) /\ Done(w) /\ Empty200(w) /\ hist[w].by = n
        /\ IsNotifyReq(n) /\ Done(n) /\ Empty200(n)

\* ------------------------------------------------------------- C15
\* One of the existence checks handle() performs for this URL fails with an
\* error other than not-found: the stat of the base name when the URL has no
\* trailing slash (main.go:101), of index.html (117), or of the base name
\* wasm_exec.js or main.wasm (143, 158).
StatFails(u) ==
    \/ (~HasSuffixSlash(u)) /\ Stat(<<PathBase(u)>>) = "err"
    \/ PathBase(u) \in {".", "index.html"} /\ Stat(<<"index.html">>) = "err"
    \/ PathBase(u) \in {"wasm_exec.js", "main.wasm"} /\ Stat(<<PathBase(u)>>) = "err"

\* C15: a request for which an existence check fails with an error other than
\* not-found is answered 500 with the error (unless creating the output
\* directory had already failed, 500 as well) and nothing else happens for it:
\* no build subprocess, no page, no toolchain query, no static file, and the
\* rendezvous channel is not touched.
C15_StatError ==
    \A r \in Req :
        (Arrived(r) /\ StatFails(url[r])) =>
            /\ pc[r] \in {"ensure_mk", "ensure_set", "ensure_ret", "stat_error", "done"}
            /\ proc[r].st = "none"
            /\ hist[r].builds = 0
            /\ sendq = <<>> /\ hist[r].by = 0 /\ Released = {}
            /\ Done(r) =>
                  /\ resp[r].status = 500 /\ resp[r].kind \in {"stat", "tempdir"}
                  /\ resp[r].data = <<>> /\ resp[r].n = 1

\* A request for /main.wasm/ was answered 500 because the stat of main.wasm
\* failed.
C15_Witness ==
    \E r \in Req :
        /\ Done(r) /\ resp[r].status = 500 /\ resp[r].kind = "stat"
        /\ url[r] = Url(<<"main.wasm">>, TRUE)
        /\ Stat(<<"main.wasm">>) = "err"

\* ------------------------------------------------------------- C16
\* The request was answered 500 with the diagnostics of its failed build.
BuildFailed(r) == Done(r) /\ resp[r].status = 500 /\ resp[r].kind = "diag"

\* C16: a failed build is contained to its request.  The step that answers it
\* (500 with this build's diagnostics) changes neither the output directory
\* path nor the channel, releases no waiter and touches no other request; the
\* server runs at most one build per request and nothing more once the
\* request is answered; and an artifact request that comes later starts its
\* own build, which may succeed or fail whatever happened before, and when it
\* succeeds the response is exactly the artifact of that build.
C16_FailureContained ==
    /\ [](\A q \in Req :
            /\ hist[q].builds <= 1
            /\ BuildFailed(q) => (hist[q].builds = 1 /\ proc[q].st = "failed")
            /\ ArtifactReq(q) =>
                  /\ pc[q] = "build" => ENABLED (RouteBuild(q) /\ proc'[q].st = "compile")
                  /\ proc[q].st = "compile" =>
                        /\ ENABLED (Compile(q) /\ proc'[q].st = "cp_open")
                        /\ ENABLED (Compile(q) /\ proc'[q].st = "failed")
                  /\ (Done(q) /\ proc[q].st = "exited" /\ resp[q].status = 200) =>
                        (resp[q].kind = "artifact" /\ resp[q].data = Artifact(q)))
    /\ [][\A r \in Req :
            /\ (proc[r].st = "failed" /\ pc[r] = "run" /\ pc'[r] # "run") =>
                  /\ BuildFailed(r)' /\ resp'[r].data = <<r>>
                  /\ tmpOutputDir' = tmpOutputDir /\ outFile' = outFile
                  /\ sendq' = sendq /\ Released' = Released
                  /\ \A q \in Req \ {r} :
                        pc'[q] = pc[q] /\ resp'[q] = resp[q] /\ proc'[q] = proc[q]
            /\ Done(r) => (proc'[r] = proc[r] /\ hist'[r] = hist[r] /\ resp'[r] = resp[r])]_vars

\* A build failed in its copy, leaving a partial file; a wait is still
\* parked; a later artifact request has been answered with its own artifact.
C16_Witness ==
    \E r, w, q \in Req :
        /\ BuildFailed(r) /\ proc[r].off > 0
        /\ IsWaitReq(w) /\ pc[w] = "parked"
        /\ r < q /\ ArtifactReq(q) /\ Done(q)
        /\ resp[q].status = 200 /\ resp[q].data = Artifact(q)

\* ------------------------------------------------------------- C17
\* C17 (as stated, a failed creation of the output directory aside): a request
\* for the root or for a directory path (URL ending in "/") is answered with
\* the static index.html of that directory when it exists on disk, and
\* otherwise with the rendered bootstrap page and status 200.
C17_Original ==
    \A r \in Req :
        (/\ Done(r) /\ HasSuffixSlash(url[r]) /\ ~TempDirFailed(r)
         /\ (url[r].segs = <<>> \/ Stat(url[r].segs) = "dir")) =>
            /\ resp[r].status = 200
            /\ resp[r].kind = IF Stat(url[r].segs \o <<"index.html">>) = "file"
                                 THEN "static" ELSE "page"

\* ------------------------------------------------------------- C18
\* The wait has reached its send (it is parked, or was and has been released).
Blocking(w) == IsWaitReq(w) /\ (w \in Parked \/ hist[w].by # 0)

\* C18: when a notify() returns, no wait() is still blocked on the channel, so
\* none that was blocked before that notify started is: every wait that had
\* reached its send by then has been released, by this notify or by another
\* one, and is runnable or answered; and each waiter is released by exactly
\* one receive: a step releases at most one, the head of the queue, and a
\* released waiter is never released again.
C18_NotifyDrains ==
    [][/\ \A n \in Req :
            (pc[n] = "notify" /\ pc'[n] = "done") =>
                /\ Parked = {} /\ Parked' = {}
                /\ \A w \in Req :
                      Blocking(w) =>
                          /\ hist[w].by \in Req /\ IsNotifyReq(hist[w].by)
                          /\ pc[hist[w].by] \in {"notify", "done"}
                          /\ pc[w] \in {"wake", "done"}
       /\ Cardinality(Released' \ Released) <= 1
       /\ \A w \in Req :
            /\ (w \in Released' \ Released) => (sendq # <<>> /\ w = Head(sendq) /\ sendq' = Tail(sendq))
            /\ w \in Released => (w \in Released' /\ hist'[w].by = hist[w].by /\ w \notin Parked')]_vars

\* A notify has returned after releasing two waits that were parked, and
\* neither of them has written its response yet.
C18_Witness ==
    \E n, w1, w2 \in Req :
        /\ w1 # w2
        /\ IsNotifyReq(n) /\ Done(n) /\ Empty200(n)
        /\ ReleasedBy(n) = {w1, w2}
        /\ pc[w1] = "wake" /\ pc[w2] = "wake"
        /\ Parked = {}

\* ------------------------------------------------------------- C19
\* The positions of handle() before the request is classified.
Ensuring(r) == pc[r] \in {"ensure_mk", "ensure_set", "ensure_ret"}

\* C19: the output directory is ensured before the request is classified.  A
\* request is classified, and answered otherwise than by the 500 of a failed
\* creation, only with the path assigned.  When the creation fails the request
\* is answered 500 whatever its URL, having started no build, rendered nothing
\* and not touched the channel, and that step leaves the path as it was,
\* unassigned; a request that arrives while the path is unassigned attempts
\* the creation again, and the attempt may succeed.
C19_EnsureFirst ==
    /\ [](\A r \in Req :
            /\ (Arrived(r) /\ ~Ensuring(r) /\ ~TempDirFailed(r)) => tmpOutputDir # 0
            /\ TempDirFailed(r) =>
                  /\ Done(r) /\ proc[r].st = "none" /\ hist[r] = HistInit
                  /\ r \notin Parked /\ loc[r] = NoLocals
            /\ pc[r] = "ensure_mk" =>
                  /\ ENABLED (EnsureMkdir(r) /\ TempDirFailed(r)')
                  /\ ENABLED (EnsureMkdir(r) /\ pc'[r] = "ensure_set"))
    /\ [][\A r \in Req :
            /\ (pc[r] = "idle" /\ pc'[r] # "idle") =>
                  pc'[r] = IF tmpOutputDir = 0 THEN "ensure_mk" ELSE "ensure_ret"
            /\ (pc[r] = "ensure_mk" /\ pc'[r] = "done") =>
                  /\ TempDirFailed(r)'
                  /\ tmpOutputDir' = tmpOutputDir /\ tmpDirs' = tmpDirs
                  /\ sendq' = sendq /\ outFile' = outFile
                  /\ \A q \in Req \ {r} : pc'[q] = pc[q] /\ resp'[q] = resp[q]
            /\ (TempDirFailed(r)' /\ ~TempDirFailed(r)) => pc[r] = "ensure_mk"]_vars

\* A /_wait request was answered 500 because the creation failed, and the
\* next request, for a static file, made the creation succeed and was served.
C19_Witness ==
    \E r, q \in Req :
        /\ r < q
        /\ IsWaitReq(r) /\ TempDirFailed(r)
        /\ Done(q) /\ resp[q].status = 200 /\ resp[q].kind = "static"
        /\ tmpOutputDir # 0

=============================================================================
